---- MODULE Spec2Model ----
(***************************************************************************)
(* A model of federate.c, the federate side of the connection to the RTI:  *)
(* connect_to_rti, get_start_time_from_rti, listen_to_rti with its two     *)
(* handlers, send_via_rti, send_via_rti_timed and                          *)
(* synchronize_with_other_federates.                                       *)
(*                                                                         *)
(* The process has a main thread (startup, then the engine's clock         *)
(* advance), the listener thread started by pthread_create, and worker     *)
(* threads that call the two send functions.  The RTI is the environment:  *)
(* it answers the timestamp query and sends frames.  Bytes on the socket   *)
(* are modelled as bytes; util.c, rti.h and reactor.h are included by      *)
(* federate.c but are not part of the source tree, so what they define is  *)
(* modelled from the specification and from federate.c's own comments.     *)
(***************************************************************************)
EXTENDS Integers, Sequences, FiniteSets, TLC

\* ------------------------------------------------------------------------
\* Bounds of the model.
\* ------------------------------------------------------------------------

\* Environment events (a frame sent by the RTI, the RTI closing the
\* connection, a send call, a clock advance) in one run.
MaxEvents == 2

\* The value CONNECT_NUM_RETRIES stands for in this model; rti.h, which
\* defines it, is not in the source tree.
MaxRetries == 2

\* Worker threads that may call the send functions.
Senders == {"w1", "w2"}

\* ------------------------------------------------------------------------
\* rti.h: message type bytes and retry limit.
\* ------------------------------------------------------------------------

FED_ID == 1

TIMESTAMP == 2

MESSAGE == 3

TIMED_MESSAGE == 5

CONNECT_NUM_RETRIES == MaxRetries

\* util.c: error(msg) prints msg with perror and ends the process; the
\* status it exits with.
error_exit_status == 1

\* ------------------------------------------------------------------------
\* Inputs.
\* ------------------------------------------------------------------------

\* The federate id handed to synchronize_with_other_federates.
FederateIds == {258}

\* get_physical_time() at the call of get_start_time_from_rti.
PhysicalTimes == {1000}

\* The start instants the RTI may answer with.
StartTimes == {100, 1200}

\* The configured run duration; negative when none was given.
Durations == {-1, 500}

\* stop_time before startup (reactor.c sets it; startup may leave it alone).
InitialStopTimes == {0}

\* What the engine adds to logical time in one advance.
Advances == {60}

\* ------------------------------------------------------------------------
\* Bytes and machine words.
\* ------------------------------------------------------------------------

RECURSIVE LittleEndian(_, _)
\* The n low-order bytes of v (two's complement), least significant first.
LittleEndian(v, n) ==
    IF n = 0 THEN <<>> ELSE <<v % 256>> \o LittleEndian(v \div 256, n - 1)

RECURSIVE UnsignedValue(_)
\* The unsigned value of bytes given least significant first.
UnsignedValue(bytes) ==
    IF bytes = <<>> THEN 0 ELSE bytes[1] + 256 * UnsignedValue(Tail(bytes))

RECURSIVE SignedValue(_)
\* The two's complement value of bytes given least significant first.
SignedValue(bytes) ==
    IF Len(bytes) = 1
    THEN (IF bytes[1] >= 128 THEN bytes[1] - 256 ELSE bytes[1])
    ELSE bytes[1] + 256 * SignedValue(Tail(bytes))

Reverse(s) == [i \in 1..Len(s) |-> s[Len(s) + 1 - i]]

\* A C integer of n bytes in a register is modelled as its n bytes, least
\* significant first; its image in memory is in address order.
MemoryImage(big_endian, word) == IF big_endian THEN Reverse(word) ELSE word

\* util.c: reverses the bytes of the value on a big-endian host only.
swap_bytes_if_big_endian_int(big_endian, word) ==
    IF big_endian THEN Reverse(word) ELSE word

swap_bytes_if_big_endian_ll(big_endian, word) ==
    IF big_endian THEN Reverse(word) ELSE word

\* util.c: little-endian encoders and decoders of the message header.
encode_ushort(v) == LittleEndian(v % 65536, 2)

encode_int(v) == LittleEndian(v, 4)

encode_ll(v) == LittleEndian(v, 8)

extract_ll(bytes) == SignedValue(SubSeq(bytes, 1, 8))

extract_header(bytes) ==
    [port_id     |-> UnsignedValue(SubSeq(bytes, 1, 2)),
     federate_id |-> UnsignedValue(SubSeq(bytes, 3, 4)),
     length      |-> UnsignedValue(SubSeq(bytes, 5, 8))]

\* An assignment to an unsigned char keeps the low 8 bits.
UnsignedChar(v) == v % 256

\* x & (0xff << 8k) for a non-negative x: byte k of x, left in its place.
MaskByte(x, k) ==
    CASE k = 0 -> x % 256
      [] k = 1 -> ((x \div 256) % 256) * 256
      [] k = 2 -> ((x \div 65536) % 256) * 65536
      [] k = 3 -> ((x \div 16777216) % 256) * 16777216

\* send_via_rti, lines 71-81: the 9-byte header it builds.
send_via_rti_buffer(port, federate, length) ==
    << UnsignedChar(MESSAGE),
       UnsignedChar(MaskByte(port, 0)),
       UnsignedChar(MaskByte(port, 1)),
       UnsignedChar(MaskByte(federate, 0)),
       UnsignedChar(MaskByte(federate, 1)),
       UnsignedChar(MaskByte(length, 0)),
       UnsignedChar(MaskByte(length, 1)),
       UnsignedChar(MaskByte(length, 2)),
       UnsignedChar(MaskByte(length, 3)) >>

\* Mutant of send_via_rti_timed_buffer: the timestamp field is left zero.
send_via_rti_timed_buffer_no_time(port, federate, length, time) ==
    <<TIMED_MESSAGE>> \o encode_ushort(port) \o encode_ushort(federate)
        \o encode_int(length) \o encode_ll(0)

\* send_via_rti_timed, lines 100-117: the 17-byte header it builds.
send_via_rti_timed_buffer(port, federate, length, time) ==
    <<TIMED_MESSAGE>> \o encode_ushort(port) \o encode_ushort(federate)
        \o encode_int(length) \o encode_ll(time)

\* ------------------------------------------------------------------------
\* State.
\* ------------------------------------------------------------------------

VARIABLES
    proc,                \* "running", "exited" (exit) or "aborted" (abort)
    exit_status,         \* the status given to exit; -1 while running
    host_big_endian,     \* byte order of the host
    target_always_fails, \* the RTI never accepts a connection
    id,                  \* argument of synchronize_with_other_federates
    my_physical_time,    \* get_physical_time() at line 359
    duration,            \* reactor.c: configured duration, negative if none
    current_time,        \* reactor.c: logical time
    start_time,          \* reactor.c
    stop_time,           \* reactor.c
    physical_start_time, \* reactor.c
    pc_main,             \* where the main thread is
    rti_socket,          \* -1, or the descriptor of the last socket made
    connected,           \* connect() succeeded on rti_socket
    count_retries,       \* local of connect_to_rti
    attempts,            \* connect() calls made in connect_to_rti
    sleeps,              \* nanosleep() calls made in connect_to_rti
    sleep_log,           \* how each of them ended: "slept" or "interrupted"
    events,              \* the startup events so far, in order
    writes,              \* the writes made on the socket, in order
    inbound,             \* bytes sent by the RTI and not yet read
    rti,                 \* the RTI: what it has sent
    hs_buffer,           \* buffer of get_start_time_from_rti
    pc_lis,              \* where the listener thread is
    buffer,              \* buffer of listen_to_rti
    hm,                  \* locals of the running handler
    mutex,               \* "free", or the thread that holds it
    scheduled,           \* the calls of schedule_value, in order
    pc_eng,              \* the engine's clock advance
    snd,                 \* per worker thread: its send call
    n_events             \* environment events so far

cfgVars == <<host_big_endian, target_always_fails, id, my_physical_time, duration>>

procVars == <<proc, exit_status>>

timeVars == <<current_time, start_time, stop_time, physical_start_time>>

connVars == <<rti_socket, connected, count_retries, attempts, sleeps, sleep_log>>

lisVars == <<pc_lis, buffer, hm>>

vars == <<proc, exit_status, host_big_endian, target_always_fails, id,
          my_physical_time, duration, current_time, start_time, stop_time,
          physical_start_time, pc_main, rti_socket, connected, count_retries,
          attempts, sleeps, sleep_log, events, writes, inbound, rti,
          hs_buffer, pc_lis, buffer, hm, mutex, scheduled, pc_eng, snd,
          n_events>>

NoLocals ==
    [port_id |-> 0, federate_id |-> 0, length |-> 0, timestamp |-> 0,
     message_contents |-> <<>>, delay |-> 0]

IdleSend ==
    [pc |-> "idle", timed |-> FALSE, port |-> 0, federate |-> 0,
     message |-> <<>>, buffer |-> <<>>, time |-> 0]

Init ==
    /\ proc = "running"
    /\ exit_status = -1
    /\ host_big_endian \in BOOLEAN
    /\ target_always_fails \in BOOLEAN
    /\ id \in FederateIds
    /\ my_physical_time \in PhysicalTimes
    /\ duration \in Durations
    /\ current_time = 0
    /\ start_time = 0
    /\ stop_time \in InitialStopTimes
    /\ physical_start_time = 0
    /\ pc_main = "socket"
    /\ rti_socket = -1
    /\ connected = FALSE
    /\ count_retries = 0
    /\ attempts = 0
    /\ sleeps = 0
    /\ sleep_log = <<>>
    /\ events = <<>>
    /\ writes = <<>>
    /\ inbound = <<>>
    /\ rti = [replied |-> FALSE, reply_tag |-> 0, start |-> 0,
              frames |-> <<>>, closed |-> FALSE]
    /\ hs_buffer = <<>>
    /\ pc_lis = "not_started"
    /\ buffer = <<>>
    /\ hm = NoLocals
    /\ mutex = "free"
    /\ scheduled = <<>>
    /\ pc_eng = "idle"
    /\ snd = [w \in Senders |-> IdleSend]
    /\ n_events = 0

\* ------------------------------------------------------------------------
\* Ending the process.
\* ------------------------------------------------------------------------

\* exit(status): every thread stops.
Exit(status) ==
    /\ proc' = "exited"
    /\ exit_status' = status

\* util.c: error(msg).
error == Exit(error_exit_status)

\* The arguments of the send call a write belongs to; none for the
\* startup writes.
NoCall == [timed |-> FALSE, port |-> 0, federate |-> 0, length |-> 0, time |-> 0]

\* A write on the socket that succeeds puts the bytes on the wire.
Written(by, part, bytes, call) ==
    writes' = Append(writes, [by |-> by, part |-> part, bytes |-> bytes,
                              call |-> call])

\* ------------------------------------------------------------------------
\* connect_to_rti (on the main thread).
\* ------------------------------------------------------------------------

\* Lines 138-141: the loop is entered with result < 0; socket().
CreateSocket ==
    /\ proc = "running" /\ pc_main = "socket"
    /\ \/ /\ rti_socket' = 0
          /\ connected' = FALSE
          /\ pc_main' = "gethostbyname"
          /\ UNCHANGED procVars
       \/ /\ rti_socket' = -1
          /\ error
          /\ UNCHANGED <<connected, pc_main>>
    /\ UNCHANGED <<cfgVars, timeVars, count_retries, attempts, sleeps,
                   sleep_log, events, writes, inbound, rti, hs_buffer,
                   lisVars, mutex, scheduled, pc_eng, snd, n_events>>

\* Lines 143-147: gethostbyname(); exit(1) when it finds no host.
ResolveHost ==
    /\ proc = "running" /\ pc_main = "gethostbyname"
    /\ \/ /\ pc_main' = "connect"
          /\ UNCHANGED procVars
       \/ /\ Exit(1)
          /\ UNCHANGED pc_main
    /\ UNCHANGED <<cfgVars, timeVars, connVars, events, writes, inbound, rti,
                   hs_buffer, lisVars, mutex, scheduled, pc_eng, snd, n_events>>

\* Mutant of RetriesExhausted: gives up one failure early.
RetriesExhaustedEarly(count) == count >= CONNECT_NUM_RETRIES

\* Lines 168-172: the test that gives up.
RetriesExhausted(count) == count > CONNECT_NUM_RETRIES

\* Lines 162-174: connect(); on failure count it and give up or go to sleep.
Connect ==
    /\ proc = "running" /\ pc_main = "connect"
    /\ attempts' = attempts + 1
    /\ \/ /\ ~target_always_fails
          /\ connected' = TRUE
          /\ pc_main' = "write_fed_id_marker"
          /\ events' = Append(events, "connected")
          /\ UNCHANGED <<procVars, count_retries>>
       \/ /\ count_retries' = count_retries + 1
          /\ IF RetriesExhausted(count_retries')
             THEN Exit(2) /\ UNCHANGED pc_main
             ELSE pc_main' = "nanosleep" /\ UNCHANGED procVars
          /\ UNCHANGED <<connected, events>>
    /\ UNCHANGED <<cfgVars, timeVars, rti_socket, sleeps, sleep_log, writes,
                   inbound, rti, hs_buffer, lisVars, mutex, scheduled, pc_eng,
                   snd, n_events>>

\* Mutant of Sleep: an interrupted sleep is counted as a failed attempt.
SleepCountsInterrupt ==
    /\ proc = "running" /\ pc_main = "nanosleep"
    /\ sleeps' = sleeps + 1
    /\ \/ /\ sleep_log' = Append(sleep_log, "slept")
          /\ UNCHANGED count_retries
       \/ /\ sleep_log' = Append(sleep_log, "interrupted")
          /\ count_retries' = count_retries + 1
    /\ pc_main' = "socket"
    /\ UNCHANGED <<cfgVars, procVars, timeVars, rti_socket, connected,
                   attempts, events, writes, inbound, rti, hs_buffer, lisVars,
                   mutex, scheduled, pc_eng, snd, n_events>>

\* Lines 176-182: nanosleep(); interrupted or not, the loop goes round.
Sleep ==
    /\ proc = "running" /\ pc_main = "nanosleep"
    /\ sleeps' = sleeps + 1
    /\ \/ sleep_log' = Append(sleep_log, "slept")
       \/ sleep_log' = Append(sleep_log, "interrupted")
    /\ pc_main' = "socket"
    /\ UNCHANGED <<cfgVars, procVars, timeVars, rti_socket, connected,
                   count_retries, attempts, events, writes, inbound, rti,
                   hs_buffer, lisVars, mutex, scheduled, pc_eng, snd, n_events>>

\* Lines 188-191: write the FED_ID marker.
WriteFedIdMarker ==
    /\ proc = "running" /\ pc_main = "write_fed_id_marker"
    /\ \/ /\ Written("main", "fed_id_marker", <<FED_ID>>, NoCall)
          /\ pc_main' = "write_fed_id"
          /\ UNCHANGED procVars
       \/ /\ error
          /\ UNCHANGED <<writes, pc_main>>
    /\ UNCHANGED <<cfgVars, timeVars, connVars, events, inbound, rti,
                   hs_buffer, lisVars, mutex, scheduled, pc_eng, snd, n_events>>

\* Mutant of FedIdBytes: the id is written in host byte order.
FedIdBytesHostOrder(big_endian, fed) ==
    MemoryImage(big_endian, LittleEndian(fed, 4))

\* Lines 194-196: the bytes of the id as written.
FedIdBytes(big_endian, fed) ==
    MemoryImage(big_endian,
                swap_bytes_if_big_endian_int(big_endian, LittleEndian(fed, 4)))

\* Lines 194-198: write the id and return.
WriteFedId ==
    /\ proc = "running" /\ pc_main = "write_fed_id"
    /\ \/ /\ Written("main", "fed_id", FedIdBytes(host_big_endian, id), NoCall)
          /\ pc_main' = "write_timestamp_marker"
          /\ events' = Append(events, "fed_id_sent")
          /\ UNCHANGED procVars
       \/ /\ error
          /\ UNCHANGED <<writes, pc_main, events>>
    /\ UNCHANGED <<cfgVars, timeVars, connVars, inbound, rti, hs_buffer,
                   lisVars, mutex, scheduled, pc_eng, snd, n_events>>

\* ------------------------------------------------------------------------
\* The RTI (environment).
\* ------------------------------------------------------------------------

\* The tag of the 9 bytes the RTI sends after the timestamp query.
ReplyTags == {TIMESTAMP, MESSAGE, TIMED_MESSAGE, FED_ID}

\* The frames the RTI may relay to this federate.
Frames ==
    { [tag |-> MESSAGE, port |-> 3, federate |-> 7, timestamp |-> 0,
       payload |-> <<65, 66>>],
      [tag |-> MESSAGE, port |-> 260, federate |-> 9, timestamp |-> 0,
       payload |-> <<>>],
      [tag |-> TIMED_MESSAGE, port |-> 3, federate |-> 7, timestamp |-> 150,
       payload |-> <<65, 66>>],
      [tag |-> TIMED_MESSAGE, port |-> 260, federate |-> 9, timestamp |-> 1250,
       payload |-> <<67>>],
      [tag |-> FED_ID, port |-> 0, federate |-> 0, timestamp |-> 0,
       payload |-> <<>>] }

\* The bytes of a frame on the wire (section 4.1 of the specification).
FrameBytes(f) ==
    CASE f.tag = MESSAGE ->
           <<MESSAGE>> \o LittleEndian(f.port, 2) \o LittleEndian(f.federate, 2)
             \o LittleEndian(Len(f.payload), 4) \o f.payload
      [] f.tag = TIMED_MESSAGE ->
           <<TIMED_MESSAGE>> \o LittleEndian(f.port, 2)
             \o LittleEndian(f.federate, 2) \o LittleEndian(Len(f.payload), 4)
             \o LittleEndian(f.timestamp, 8) \o f.payload
      [] OTHER -> <<f.tag>>

QuerySent == \E i \in 1..Len(writes) : writes[i].part = "timestamp"

\* The RTI answers the timestamp query with 9 bytes.
RtiReply ==
    /\ proc = "running" /\ QuerySent /\ ~rti.replied /\ ~rti.closed
    /\ \E tag \in ReplyTags, s \in StartTimes :
          /\ inbound' = inbound \o <<tag>> \o LittleEndian(s, 8)
          /\ rti' = [rti EXCEPT !.replied = TRUE, !.reply_tag = tag, !.start = s]
    /\ UNCHANGED <<cfgVars, procVars, timeVars, pc_main, connVars, events,
                   writes, hs_buffer, lisVars, mutex, scheduled, pc_eng, snd,
                   n_events>>

\* The RTI relays a frame to this federate.
RtiSendFrame ==
    /\ proc = "running" /\ rti.replied /\ ~rti.closed
    /\ n_events < MaxEvents
    /\ \E f \in Frames :
          /\ inbound' = inbound \o FrameBytes(f)
          /\ rti' = [rti EXCEPT !.frames = Append(@, f)]
    /\ n_events' = n_events + 1
    /\ UNCHANGED <<cfgVars, procVars, timeVars, pc_main, connVars, events,
                   writes, hs_buffer, lisVars, mutex, scheduled, pc_eng, snd>>

\* The RTI closes the connection.
RtiClose ==
    /\ proc = "running" /\ connected /\ ~rti.closed
    /\ n_events < MaxEvents
    /\ rti' = [rti EXCEPT !.closed = TRUE]
    /\ n_events' = n_events + 1
    /\ UNCHANGED <<cfgVars, procVars, timeVars, pc_main, connVars, events,
                   writes, inbound, hs_buffer, lisVars, mutex, scheduled,
                   pc_eng, snd>>

\* util.c: read_from_socket(socket, n, buf) returns once n bytes have come,
\* and ends the process with error() when the connection fails first.
CanRead(n) == Len(inbound) >= n

ReadFails(n) == Len(inbound) < n /\ rti.closed

Take(n) == SubSeq(inbound, 1, n)

Drop(n) == SubSeq(inbound, n + 1, Len(inbound))

\* ------------------------------------------------------------------------
\* get_start_time_from_rti (on the main thread).
\* ------------------------------------------------------------------------

\* Lines 210-213: write the TIMESTAMP marker.  The counters of the
\* finished connect_to_rti call are dropped here.
WriteTimestampMarker ==
    /\ proc = "running" /\ pc_main = "write_timestamp_marker"
    /\ \/ /\ Written("main", "timestamp_marker", <<TIMESTAMP>>, NoCall)
          /\ pc_main' = "write_timestamp"
          /\ UNCHANGED procVars
       \/ /\ error
          /\ UNCHANGED <<writes, pc_main>>
    /\ count_retries' = 0 /\ attempts' = 0 /\ sleeps' = 0
    /\ sleep_log' = <<>>
    /\ UNCHANGED <<cfgVars, timeVars, rti_socket, connected, events, inbound,
                   rti, hs_buffer, lisVars, mutex, scheduled, pc_eng, snd,
                   n_events>>

\* Lines 216-218: the bytes of the physical time as written.
TimestampBytes(big_endian, time) ==
    MemoryImage(big_endian,
                swap_bytes_if_big_endian_ll(big_endian, LittleEndian(time, 8)))

\* Lines 216-219: write the physical time.
WriteTimestamp ==
    /\ proc = "running" /\ pc_main = "write_timestamp"
    /\ \/ /\ Written("main", "timestamp",
                     TimestampBytes(host_big_endian, my_physical_time), NoCall)
          /\ pc_main' = "read_reply"
          /\ events' = Append(events, "query_sent")
          /\ UNCHANGED procVars
       \/ /\ error
          /\ UNCHANGED <<writes, pc_main, events>>
    /\ UNCHANGED <<cfgVars, timeVars, connVars, inbound, rti, hs_buffer,
                   lisVars, mutex, scheduled, pc_eng, snd, n_events>>

\* Mutant of ReplyAccepted: the tag is not looked at.
ReplyAcceptedUnchecked(reply) == Len(reply) = 9

\* Line 231: the reply is accepted.
ReplyAccepted(reply) == reply[1] = TIMESTAMP

\* Mutant of ReplyTimestamp: the 8 bytes are taken from buffer[0].
ReplyTimestampFromTag(big_endian, reply) ==
    SignedValue(swap_bytes_if_big_endian_ll(big_endian,
                    MemoryImage(big_endian, SubSeq(reply, 1, 8))))

\* Line 238: the instant in the reply; the 8 bytes at buffer[1] are loaded
\* as one long long and swapped on a big-endian host.
ReplyTimestamp(big_endian, reply) ==
    SignedValue(swap_bytes_if_big_endian_ll(big_endian,
                    MemoryImage(big_endian, SubSeq(reply, 2, 9))))

\* Lines 227-241 and the assignment of line 359: read the 9 bytes of the
\* reply; exit(1) unless it is a TIMESTAMP, else current_time is the result.
ReadReply ==
    /\ proc = "running" /\ pc_main = "read_reply"
    /\ \/ /\ CanRead(9)
          /\ hs_buffer' = Take(9)
          /\ inbound' = Drop(9)
          /\ events' = Append(events, "reply_received")
          /\ IF ReplyAccepted(hs_buffer')
             THEN /\ current_time' = ReplyTimestamp(host_big_endian, hs_buffer')
                  /\ pc_main' = "set_start"
                  /\ UNCHANGED procVars
             ELSE /\ Exit(1)
                  /\ UNCHANGED <<current_time, pc_main>>
       \/ /\ ReadFails(9)
          /\ error
          /\ UNCHANGED <<hs_buffer, inbound, events, current_time, pc_main>>
    /\ UNCHANGED <<cfgVars, start_time, stop_time, physical_start_time,
                   connVars, writes, rti, lisVars, mutex, scheduled, pc_eng,
                   snd, n_events>>

\* ------------------------------------------------------------------------
\* synchronize_with_other_federates, after the two calls.
\* ------------------------------------------------------------------------

\* Mutant of StopTimeAfterStart: the stop time is recomputed even when no
\* duration was given.
StopTimeAlwaysRecomputed(dur, now, stop) == now + dur

\* Lines 363-366: the stop time, recomputed when a duration was given.
StopTimeAfterStart(dur, now, stop) == IF dur >= 0 THEN now + dur ELSE stop

\* Lines 361-366: start_time, and stop_time when a duration was given.
SetStart ==
    /\ proc = "running" /\ pc_main = "set_start"
    /\ start_time' = current_time
    /\ stop_time' = StopTimeAfterStart(duration, current_time, stop_time)
    /\ pc_main' = "pthread_create"
    /\ events' = Append(events, "times_set")
    /\ UNCHANGED <<cfgVars, procVars, current_time, physical_start_time,
                   connVars, writes, inbound, rti, hs_buffer, lisVars, mutex,
                   scheduled, pc_eng, snd, n_events>>

\* Mutant of SpawnListener: the thread is started before the timestamp
\* query is sent.
SpawnListenerBeforeHandshake ==
    /\ proc = "running" /\ pc_main = "write_timestamp_marker"
    /\ pc_lis = "not_started"
    /\ pc_lis' = "read_tag"
    /\ events' = Append(events, "listener_spawned")
    /\ UNCHANGED <<cfgVars, procVars, timeVars, pc_main, connVars, writes,
                   inbound, rti, hs_buffer, buffer, hm, mutex, scheduled,
                   pc_eng, snd, n_events>>

\* Lines 369-370: start the listener thread.
SpawnListener ==
    /\ proc = "running" /\ pc_main = "pthread_create"
    /\ pc_lis' = "read_tag"
    /\ pc_main' = "wait_until"
    /\ events' = Append(events, "listener_spawned")
    /\ UNCHANGED <<cfgVars, procVars, timeVars, connVars, writes, inbound,
                   rti, hs_buffer, buffer, hm, mutex, scheduled, pc_eng, snd,
                   n_events>>

\* Line 374: wait_until(current_time) returns.
WaitUntil ==
    /\ proc = "running" /\ pc_main = "wait_until"
    /\ pc_main' = "set_physical_start"
    /\ events' = Append(events, "wait_done")
    /\ UNCHANGED <<cfgVars, procVars, timeVars, connVars, writes, inbound,
                   rti, hs_buffer, lisVars, mutex, scheduled, pc_eng, snd,
                   n_events>>

\* Lines 380-387: physical_start_time, and return.
SetPhysicalStart ==
    /\ proc = "running" /\ pc_main = "set_physical_start"
    /\ physical_start_time' = current_time
    /\ pc_main' = "returned"
    /\ events' = Append(events, "returned")
    /\ UNCHANGED <<cfgVars, procVars, current_time, start_time, stop_time,
                   connVars, writes, inbound, rti, hs_buffer, lisVars, mutex,
                   scheduled, pc_eng, snd, n_events>>

\* ------------------------------------------------------------------------
\* listen_to_rti and its handlers (on the listener thread).
\* ------------------------------------------------------------------------

\* buf with bytes stored from index at on (indices from 1).
Store(buf, at, bytes) ==
    [i \in 1..(IF Len(buf) > at + Len(bytes) - 1
               THEN Len(buf) ELSE at + Len(bytes) - 1) |->
        IF i >= at /\ i < at + Len(bytes) THEN bytes[i - at + 1] ELSE buf[i]]

\* Reactor code generated per program: the action of an input port.
action_for_port(port_id) == port_id

\* reactor.c: get_logical_time().
get_logical_time == current_time

\* reactor.c: schedule_value(action, delay, value, length); the call is
\* recorded with the logical time it was made at.
schedule_value(action, delay, value, length, timed, timestamp) ==
    scheduled' = Append(scheduled,
                        [action |-> action, delay |-> delay, value |-> value,
                         length |-> length, timed |-> timed,
                         timestamp |-> timestamp,
                         logical_time |-> current_time])

\* Mutant of Dispatch: an unrecognized type is skipped.
DispatchSkipsUnknown(tag) ==
    CASE tag = MESSAGE -> "m_header"
      [] tag = TIMED_MESSAGE -> "t_header"
      [] OTHER -> "read_tag"

\* Lines 325-335: the switch on the message type.
Dispatch(tag) ==
    CASE tag = MESSAGE -> "m_header"
      [] tag = TIMED_MESSAGE -> "t_header"
      [] OTHER -> "error"

\* Lines 322-335: read one byte and switch on it.
ReadTag ==
    /\ proc = "running" /\ pc_lis = "read_tag"
    /\ \/ /\ CanRead(1)
          /\ buffer' = Store(buffer, 1, Take(1))
          /\ inbound' = Drop(1)
          /\ IF Dispatch(buffer'[1]) = "error"
             THEN error /\ UNCHANGED pc_lis
             ELSE pc_lis' = Dispatch(buffer'[1]) /\ UNCHANGED procVars
       \/ /\ ReadFails(1)
          /\ error
          /\ UNCHANGED <<buffer, inbound, pc_lis>>
    /\ UNCHANGED <<cfgVars, timeVars, pc_main, connVars, events, writes, rti,
                   hs_buffer, hm, mutex, scheduled, pc_eng, snd, n_events>>

\* Lines 257-262 and 282-287: read the 8 bytes after the tag and extract
\* port, federate and length from them.
ReadHeader(here, next) ==
    /\ proc = "running" /\ pc_lis = here
    /\ \/ /\ CanRead(8)
          /\ buffer' = Store(buffer, 2, Take(8))
          /\ inbound' = Drop(8)
          /\ LET h == extract_header(SubSeq(buffer', 2, 9))
             IN  hm' = [hm EXCEPT !.port_id = h.port_id,
                                  !.federate_id = h.federate_id,
                                  !.length = h.length]
          /\ pc_lis' = next
          /\ UNCHANGED procVars
       \/ /\ ReadFails(8)
          /\ error
          /\ UNCHANGED <<buffer, inbound, hm, pc_lis>>
    /\ UNCHANGED <<cfgVars, timeVars, pc_main, connVars, events, writes, rti,
                   hs_buffer, mutex, scheduled, pc_eng, snd, n_events>>

\* Lines 267-268 and 297-298: read length bytes of payload.
ReadPayload(here, next) ==
    /\ proc = "running" /\ pc_lis = here
    /\ \/ /\ CanRead(hm.length)
          /\ hm' = [hm EXCEPT !.message_contents = Take(hm.length)]
          /\ inbound' = Drop(hm.length)
          /\ pc_lis' = next
          /\ UNCHANGED procVars
       \/ /\ ReadFails(hm.length)
          /\ error
          /\ UNCHANGED <<inbound, hm, pc_lis>>
    /\ UNCHANGED <<cfgVars, timeVars, pc_main, connVars, events, writes, rti,
                   hs_buffer, buffer, mutex, scheduled, pc_eng, snd, n_events>>

\* handle_message, lines 257-262.
MessageHeader == ReadHeader("m_header", "m_payload")

\* handle_message, lines 267-268.
MessagePayload == ReadPayload("m_payload", "m_schedule")

\* Mutant of MessageDelay: the delay is computed as for a timed message,
\* from a timestamp the handler never read.
MessageDelayAsTimed == hm.timestamp - current_time

\* Line 271: the delay handle_message gives to schedule_value.
MessageDelay == 0

\* handle_message, lines 271-273: schedule_value, and return to the loop.
MessageSchedule ==
    /\ proc = "running" /\ pc_lis = "m_schedule"
    /\ schedule_value(action_for_port(hm.port_id), MessageDelay,
                      hm.message_contents, hm.length, FALSE, 0)
    /\ hm' = NoLocals
    /\ pc_lis' = "read_tag"
    /\ UNCHANGED <<cfgVars, procVars, timeVars, pc_main, connVars, events,
                   writes, inbound, rti, hs_buffer, buffer, mutex, pc_eng,
                   snd, n_events>>

\* Mutant of TimedHeader: the handler goes from the header straight to the
\* payload and leaves the timestamp on the connection.
TimedHeaderThenPayload == ReadHeader("t_header", "t_payload")

\* handle_timed_message, lines 282-287.
TimedHeader == ReadHeader("t_header", "t_timestamp")

\* handle_timed_message, lines 291-292: read the 8 bytes of the timestamp.
TimedTimestamp ==
    /\ proc = "running" /\ pc_lis = "t_timestamp"
    /\ \/ /\ CanRead(8)
          /\ buffer' = Store(buffer, 10, Take(8))
          /\ inbound' = Drop(8)
          /\ hm' = [hm EXCEPT !.timestamp = extract_ll(SubSeq(buffer', 10, 17))]
          /\ pc_lis' = "t_payload"
          /\ UNCHANGED procVars
       \/ /\ ReadFails(8)
          /\ error
          /\ UNCHANGED <<buffer, inbound, hm, pc_lis>>
    /\ UNCHANGED <<cfgVars, timeVars, pc_main, connVars, events, writes, rti,
                   hs_buffer, mutex, scheduled, pc_eng, snd, n_events>>

\* handle_timed_message, lines 297-298.
TimedPayload == ReadPayload("t_payload", "t_lock")

\* Mutant of ListenerMayLock: the listener does not wait for the mutex.
ListenerLockSkipped(m) == m \in {"free", "engine"}

\* Line 303: pthread_mutex_lock returns once no other thread holds the mutex.
ListenerMayLock(m) == m = "free"

\* handle_timed_message, line 303.
TimedLock ==
    /\ proc = "running" /\ pc_lis = "t_lock"
    /\ ListenerMayLock(mutex)
    /\ mutex' = "listener"
    /\ pc_lis' = "t_delay"
    /\ UNCHANGED <<cfgVars, procVars, timeVars, pc_main, connVars, events,
                   writes, inbound, rti, hs_buffer, buffer, hm, scheduled,
                   pc_eng, snd, n_events>>

\* handle_timed_message, line 305: delay = timestamp - get_logical_time().
TimedDelay ==
    /\ proc = "running" /\ pc_lis = "t_delay"
    /\ hm' = [hm EXCEPT !.delay = hm.timestamp - get_logical_time]
    /\ pc_lis' = "t_schedule"
    /\ UNCHANGED <<cfgVars, procVars, timeVars, pc_main, connVars, events,
                   writes, inbound, rti, hs_buffer, buffer, mutex, scheduled,
                   pc_eng, snd, n_events>>

\* handle_timed_message, line 306: schedule_value with that delay.
TimedSchedule ==
    /\ proc = "running" /\ pc_lis = "t_schedule"
    /\ schedule_value(action_for_port(hm.port_id), hm.delay,
                      hm.message_contents, hm.length, TRUE, hm.timestamp)
    /\ pc_lis' = "t_unlock"
    /\ UNCHANGED <<cfgVars, procVars, timeVars, pc_main, connVars, events,
                   writes, inbound, rti, hs_buffer, buffer, hm, mutex, pc_eng,
                   snd, n_events>>

\* Mutant of TimedUnlock: the listener returns to the loop with the mutex
\* still held.
TimedUnlockKeepsMutex ==
    /\ proc = "running" /\ pc_lis = "t_unlock"
    /\ hm' = NoLocals
    /\ pc_lis' = "read_tag"
    /\ UNCHANGED <<cfgVars, procVars, timeVars, pc_main, connVars, events,
                   writes, inbound, rti, hs_buffer, buffer, mutex, scheduled,
                   pc_eng, snd, n_events>>

\* handle_timed_message, lines 309-310: unlock, and return to the loop.
TimedUnlock ==
    /\ proc = "running" /\ pc_lis = "t_unlock"
    /\ mutex' = "free"
    /\ hm' = NoLocals
    /\ pc_lis' = "read_tag"
    /\ UNCHANGED <<cfgVars, procVars, timeVars, pc_main, connVars, events,
                   writes, inbound, rti, hs_buffer, buffer, scheduled, pc_eng,
                   snd, n_events>>

\* ------------------------------------------------------------------------
\* The engine's clock advance (reactor.c, on the main thread after startup):
\* it holds the mutex while it changes current_time.
\* ------------------------------------------------------------------------

\* The engine calls pthread_mutex_lock and waits for the mutex.
EngineRequest ==
    /\ proc = "running" /\ pc_main = "returned" /\ pc_eng = "idle"
    /\ n_events < MaxEvents
    /\ pc_eng' = "waiting"
    /\ n_events' = n_events + 1
    /\ UNCHANGED <<cfgVars, procVars, timeVars, pc_main, connVars, events,
                   writes, inbound, rti, hs_buffer, lisVars, mutex, scheduled,
                   snd>>

\* pthread_mutex_lock returns in the engine once the mutex is free.
EngineLock ==
    /\ proc = "running" /\ pc_eng = "waiting"
    /\ mutex = "free"
    /\ mutex' = "engine"
    /\ pc_eng' = "locked"
    /\ UNCHANGED <<cfgVars, procVars, timeVars, pc_main, connVars, events,
                   writes, inbound, rti, hs_buffer, lisVars, scheduled, snd,
                   n_events>>

EngineAdvance ==
    /\ proc = "running" /\ pc_eng = "locked"
    /\ \E d \in Advances : current_time' = current_time + d
    /\ pc_eng' = "advanced"
    /\ UNCHANGED <<cfgVars, procVars, start_time, stop_time,
                   physical_start_time, pc_main, connVars, events, writes,
                   inbound, rti, hs_buffer, lisVars, mutex, scheduled, snd,
                   n_events>>

EngineUnlock ==
    /\ proc = "running" /\ pc_eng = "advanced"
    /\ mutex' = "free"
    /\ pc_eng' = "idle"
    /\ UNCHANGED <<cfgVars, procVars, timeVars, pc_main, connVars, events,
                   writes, inbound, rti, hs_buffer, lisVars, scheduled, snd,
                   n_events>>

\* ------------------------------------------------------------------------
\* send_via_rti and send_via_rti_timed (on worker threads, after startup).
\* ------------------------------------------------------------------------

\* The calls a worker may make: port, federate and message.
SendCalls ==
    { [port |-> 3, federate |-> 7, message |-> <<65, 66>>],
      [port |-> 259, federate |-> 513, message |-> <<65>>],
      [port |-> 65536, federate |-> 7, message |-> <<65>>],
      [port |-> 3, federate |-> 65536, message |-> <<65>>] }

\* The arguments of worker w's call, as recorded with its writes.
CallOf(w) ==
    [timed |-> snd[w].timed, port |-> snd[w].port,
     federate |-> snd[w].federate, length |-> Len(snd[w].message),
     time |-> snd[w].time]

\* A worker calls send_via_rti (timed = FALSE) or send_via_rti_timed.
SendCall(w) ==
    /\ proc = "running" /\ pc_main = "returned" /\ snd[w].pc = "idle"
    /\ n_events < MaxEvents
    /\ \E c \in SendCalls, timed \in BOOLEAN :
          snd' = [snd EXCEPT ![w] = [pc |-> "assert", timed |-> timed,
                                     port |-> c.port, federate |-> c.federate,
                                     message |-> c.message, buffer |-> <<>>,
                                     time |-> 0]]
    /\ n_events' = n_events + 1
    /\ UNCHANGED <<cfgVars, procVars, timeVars, pc_main, connVars, events,
                   writes, inbound, rti, hs_buffer, lisVars, mutex, scheduled,
                   pc_eng>>

\* Mutant of AssertionsHold: the assertions are gone.
AssertionsRemoved(port, federate) == port >= 0 /\ federate >= 0

\* Lines 69-70 and 98-99: what the two assertions require.
AssertionsHold(port, federate) == port < 65536 /\ federate < 65536

\* Lines 69-70 and 98-99: a failed assertion aborts the process.
SendAssert(w) ==
    /\ proc = "running" /\ snd[w].pc = "assert"
    /\ IF AssertionsHold(snd[w].port, snd[w].federate)
       THEN /\ snd' = [snd EXCEPT ![w].pc = "encode"]
            /\ UNCHANGED procVars
       ELSE /\ proc' = "aborted"
            /\ UNCHANGED <<exit_status, snd>>
    /\ UNCHANGED <<cfgVars, timeVars, pc_main, connVars, events, writes,
                   inbound, rti, hs_buffer, lisVars, mutex, scheduled, pc_eng,
                   n_events>>

\* Lines 71-81 and 100-117: fill the header; the timed one reads logical
\* time (line 115).
SendEncode(w) ==
    /\ proc = "running" /\ snd[w].pc = "encode"
    /\ snd' = [snd EXCEPT
                 ![w].pc = "write_header",
                 ![w].time = IF snd[w].timed THEN get_logical_time ELSE 0,
                 ![w].buffer =
                     IF snd[w].timed
                     THEN send_via_rti_timed_buffer(snd[w].port,
                              snd[w].federate, Len(snd[w].message),
                              get_logical_time)
                     ELSE send_via_rti_buffer(snd[w].port, snd[w].federate,
                              Len(snd[w].message))]
    /\ UNCHANGED <<cfgVars, procVars, timeVars, pc_main, connVars, events,
                   writes, inbound, rti, hs_buffer, lisVars, mutex, scheduled,
                   pc_eng, n_events>>

\* Lines 83 and 120: write_to_socket of the header (util.c: it writes all
\* the bytes or ends the process with error()).
SendWriteHeader(w) ==
    /\ proc = "running" /\ snd[w].pc = "write_header"
    /\ \/ /\ Written(w, "header", snd[w].buffer, CallOf(w))
          /\ snd' = [snd EXCEPT ![w].pc = "write_payload"]
          /\ UNCHANGED procVars
       \/ /\ error
          /\ UNCHANGED <<writes, snd>>
    /\ UNCHANGED <<cfgVars, timeVars, pc_main, connVars, events, inbound, rti,
                   hs_buffer, lisVars, mutex, scheduled, pc_eng, n_events>>

\* Lines 84-85 and 121-122: write_to_socket of the message, and return.
SendWritePayload(w) ==
    /\ proc = "running" /\ snd[w].pc = "write_payload"
    /\ \/ /\ Written(w, "payload", snd[w].message, CallOf(w))
          /\ snd' = [snd EXCEPT ![w] = IdleSend]
          /\ UNCHANGED procVars
       \/ /\ error
          /\ UNCHANGED <<writes, snd>>
    /\ UNCHANGED <<cfgVars, timeVars, pc_main, connVars, events, inbound, rti,
                   hs_buffer, lisVars, mutex, scheduled, pc_eng, n_events>>

\* ------------------------------------------------------------------------
\* The specification.
\* ------------------------------------------------------------------------

Next ==
    \/ CreateSocket
    \/ ResolveHost
    \/ Connect
    \/ Sleep
    \/ WriteFedIdMarker
    \/ WriteFedId
    \/ WriteTimestampMarker
    \/ WriteTimestamp
    \/ ReadReply
    \/ SetStart
    \/ SpawnListener
    \/ WaitUntil
    \/ SetPhysicalStart
    \/ RtiReply
    \/ RtiSendFrame
    \/ RtiClose
    \/ ReadTag
    \/ MessageHeader
    \/ MessagePayload
    \/ MessageSchedule
    \/ TimedHeader
    \/ TimedTimestamp
    \/ TimedPayload
    \/ TimedLock
    \/ TimedDelay
    \/ TimedSchedule
    \/ TimedUnlock
    \/ EngineRequest
    \/ EngineLock
    \/ EngineAdvance
    \/ EngineUnlock
    \/ \E w \in Senders : SendCall(w)
    \/ \E w \in Senders : SendAssert(w)
    \/ \E w \in Senders : SendEncode(w)
    \/ \E w \in Senders : SendWriteHeader(w)
    \/ \E w \in Senders : SendWritePayload(w)

Spec == Init /\ [][Next]_vars

\* The scheduling the threads rely on.  A thread that is not blocked goes
\* on: the listener's three steps between lock and unlock (lines 303-309;
\* schedule_value returns) and the main thread's steps round the loop of
\* connect_to_rti (lines 138-182).  pthread_mutex_lock returns in a thread
\* that waits for a mutex which stays free.
FairSpec ==
    /\ Spec
    /\ WF_vars(TimedDelay)
    /\ WF_vars(TimedSchedule)
    /\ WF_vars(TimedUnlock)
    /\ WF_vars(EngineLock)
    /\ WF_vars(CreateSocket)
    /\ WF_vars(ResolveHost)
    /\ WF_vars(Connect)
    /\ WF_vars(Sleep)

\* ------------------------------------------------------------------------
\* Properties.
\* ------------------------------------------------------------------------

RECURSIVE AllFrameBytes(_)
\* The bytes of a sequence of frames on the wire.
AllFrameBytes(fs) ==
    IF fs = <<>> THEN <<>> ELSE FrameBytes(fs[1]) \o AllFrameBytes(Tail(fs))

IsPrefix(s, t) == Len(s) <= Len(t) /\ SubSeq(t, 1, Len(s)) = s

\* The frames relayed after the k-th.
FramesAfter(k) == SubSeq(rti.frames, k + 1, Len(rti.frames))

\* Frames are handled in the order sent and an unrecognized one ends the
\* process, so the i-th call of schedule_value is for the i-th frame.
FrameOfCall(i) == rti.frames[i]

\* C1: for every TIMED_MESSAGE frame the delay given to schedule_value is
\* the frame's timestamp minus the logical time current at the call of
\* schedule_value, and between the listener's read of logical time and that
\* call logical time does not change, whatever the engine's clock advance
\* does.
C1_TimedDelayAtomic ==
    /\ \A i \in 1..Len(scheduled) :
          FrameOfCall(i).tag = TIMED_MESSAGE =>
             /\ scheduled[i].timed
             /\ scheduled[i].delay =
                   FrameOfCall(i).timestamp - scheduled[i].logical_time
    /\ pc_lis = "t_schedule" => hm.delay = hm.timestamp - current_time

\* C1 happens: the frame with timestamp 150 was scheduled at logical time
\* 100 with delay 50, and the engine has advanced the clock since.
C1_Witness ==
    /\ \E i \in 1..Len(scheduled) :
          /\ scheduled[i].timed
          /\ scheduled[i].timestamp = 150
          /\ scheduled[i].logical_time = 100
          /\ scheduled[i].delay = 50
    /\ current_time > 100

\* C2: for every MESSAGE frame schedule_value is called with delay 0, the
\* action of the frame's port, and the frame's payload with its length,
\* whatever logical time is and whatever the frame's federate field is.
C2_MessageZeroDelay ==
    \A i \in 1..Len(scheduled) :
       FrameOfCall(i).tag = MESSAGE =>
          /\ ~scheduled[i].timed
          /\ scheduled[i].delay = 0
          /\ scheduled[i].action = action_for_port(FrameOfCall(i).port)
          /\ scheduled[i].value = FrameOfCall(i).payload
          /\ scheduled[i].length = Len(FrameOfCall(i).payload)

\* C2 happens: a MESSAGE frame for another federate was delivered after
\* logical time had moved on from the start instant.
C2_Witness ==
    \E i \in 1..Len(scheduled) :
       /\ FrameOfCall(i).tag = MESSAGE
       /\ FrameOfCall(i).federate = 9
       /\ scheduled[i].action = 260
       /\ scheduled[i].logical_time \notin StartTimes

C4_BadReplyFatal ==
    (rti.replied /\ rti.reply_tag # TIMESTAMP) =>
       /\ current_time = 0 /\ start_time = 0
       /\ stop_time \in InitialStopTimes
       /\ pc_lis = "not_started"
       /\ scheduled = <<>>
       /\ pc_main = "read_reply"
       /\ hs_buffer # <<>> =>
             /\ hs_buffer[1] = rti.reply_tag
             /\ proc = "exited"
             /\ exit_status > 0

\* C4 happens: a MESSAGE came as the reply and the process has exited.
C4_Witness ==
    /\ hs_buffer # <<>>
    /\ hs_buffer[1] = MESSAGE
    /\ proc = "exited"

\* The indices of the writes of one part.
WritesOf(part) == {i \in 1..Len(writes) : writes[i].part = part}

\* C5: get_start_time_from_rti writes one TIMESTAMP marker followed by the
\* given physical time in 8 little-endian bytes, reads the 9 bytes of the
\* reply and nothing more, returns only when the reply starts with
\* TIMESTAMP, and returns the start time the RTI put in the reply.
C5_StartTimeReturned ==
    /\ Cardinality(WritesOf("timestamp_marker")) <= 1
    /\ Cardinality(WritesOf("timestamp")) <= 1
    /\ \A i \in WritesOf("timestamp") :
          /\ i = 4
          /\ writes[i - 1].part = "timestamp_marker"
          /\ writes[i - 1].bytes = <<TIMESTAMP>>
          /\ writes[i].bytes = LittleEndian(my_physical_time, 8)
    /\ pc_main \in {"set_start", "pthread_create"} =>
          /\ rti.reply_tag = TIMESTAMP
          /\ Len(hs_buffer) = 9
          /\ inbound = AllFrameBytes(rti.frames)
          /\ current_time = rti.start
    /\ pc_main \in {"pthread_create", "wait_until", "set_physical_start",
                    "returned"} =>
          /\ rti.reply_tag = TIMESTAMP
          /\ start_time = rti.start

\* C5 happens: physical time 1000 was reported, the RTI answered 1200 and
\* 1200 has been returned, on a big-endian host.
C5_Witness ==
    /\ pc_main = "set_start"
    /\ my_physical_time = 1000
    /\ rti.start = 1200
    /\ current_time = 1200
    /\ host_big_endian

\* The startup events in the order of synchronize_with_other_federates.
StartupOrder ==
    <<"connected", "fed_id_sent", "query_sent", "reply_received", "times_set",
      "listener_spawned", "wait_done", "returned">>

\* The listener has started.
ListenerActive == pc_lis # "not_started" \/ buffer # <<>> \/ scheduled # <<>>

UnknownTagRead == buffer # <<>> /\ buffer[1] \notin {MESSAGE, TIMED_MESSAGE}

\* C7: when the listener reads a tag that is neither MESSAGE nor
\* TIMED_MESSAGE the process exits with a non-zero status: no byte after
\* the tag is read and schedule_value is not called for any later frame.
C7_UnknownTagFatal ==
    /\ UnknownTagRead =>
          /\ proc = "exited"
          /\ exit_status > 0
          /\ pc_lis = "read_tag"
          /\ Len(scheduled) < Len(rti.frames)
          /\ rti.frames[Len(scheduled) + 1].tag = buffer[1]
          /\ inbound = AllFrameBytes(FramesAfter(Len(scheduled) + 1))
    /\ \A k \in 1..Len(rti.frames) :
          rti.frames[k].tag \notin {MESSAGE, TIMED_MESSAGE} =>
             Len(scheduled) < k

\* C7 happens: an unknown tag was read and a frame that came after it is
\* left unread.
C7_Witness ==
    /\ UnknownTagRead
    /\ proc = "exited"
    /\ inbound # <<>>

\* The header writes of send_via_rti.
PlainHeaderWrites ==
    {i \in 1..Len(writes) : writes[i].part = "header" /\ ~writes[i].call.timed}

\* C8: the header send_via_rti writes is MESSAGE, the port in 2
\* little-endian bytes, the federate in 2 and the length in 4, and
\* extract_header gets port, federate and length back from it.
C8_PlainHeaderRoundTrip ==
    \A i \in PlainHeaderWrites :
       LET c == writes[i].call
       IN  /\ writes[i].bytes =
                 <<MESSAGE>> \o LittleEndian(c.port, 2)
                    \o LittleEndian(c.federate, 2) \o LittleEndian(c.length, 4)
           /\ extract_header(Tail(writes[i].bytes)) =
                 [port_id |-> c.port, federate_id |-> c.federate,
                  length |-> c.length]

\* C8's example: port 3, federate 7 and a 2-byte message give the header
\* MESSAGE 3 0 7 0 2 0 0 0.
C8_Example ==
    \E i \in PlainHeaderWrites :
       /\ writes[i].call.port = 3 /\ writes[i].call.federate = 7
       /\ writes[i].bytes = <<MESSAGE, 3, 0, 7, 0, 2, 0, 0, 0>>

\* C9: a send whose port or federate is 65536 or more writes nothing: it
\* does not get past the assertions, which abort the process.
C9_InvalidAddressNoWrite ==
    /\ \A i \in 1..Len(writes) :
          writes[i].by \in Senders =>
             writes[i].call.port < 65536 /\ writes[i].call.federate < 65536
    /\ \A w \in Senders :
          (snd[w].port >= 65536 \/ snd[w].federate >= 65536) =>
             /\ snd[w].pc = "assert"
             /\ snd[w].buffer = <<>>
    /\ proc = "aborted" =>
          \E w \in Senders :
             /\ snd[w].pc = "assert"
             /\ snd[w].port >= 65536 \/ snd[w].federate >= 65536

\* C9 happens: send_via_rti_timed was called with federate 65536 and the
\* process was aborted.
C9_Witness ==
    /\ proc = "aborted"
    /\ \E w \in Senders :
          snd[w].timed /\ snd[w].federate = 65536 /\ snd[w].pc = "assert"

\* C10: on a connection obtained at any attempt the first write is the
\* FED_ID byte and the second the federate's id in 4 little-endian bytes;
\* each is written once, before the timestamp query and any message, and
\* a failed write of either ends the process.
C10_FedIdFirst ==
    /\ writes # <<>> =>
          /\ connected
          /\ writes[1].by = "main"
          /\ writes[1].part = "fed_id_marker"
          /\ writes[1].bytes = <<FED_ID>>
    /\ Len(writes) >= 2 =>
          /\ writes[2].by = "main"
          /\ writes[2].part = "fed_id"
          /\ writes[2].bytes = LittleEndian(id, 4)
    /\ WritesOf("fed_id_marker") \subseteq {1}
    /\ WritesOf("fed_id") \subseteq {2}
    /\ pc_main = "write_fed_id_marker" => connected /\ writes = <<>>
    /\ pc_main = "write_fed_id" => Len(writes) = 1
    /\ (proc = "exited"
          /\ pc_main \in {"write_fed_id_marker", "write_fed_id"}) =>
             exit_status > 0
    /\ pc_main \notin {"socket", "gethostbyname", "connect", "nanosleep",
                       "write_fed_id_marker", "write_fed_id"} =>
          Len(writes) >= 2

\* C10 happens: the connection was obtained on the last attempt allowed and
\* the marker and the id have been written, on a big-endian host.
C10_Witness ==
    /\ pc_main = "write_timestamp_marker"
    /\ count_retries = CONNECT_NUM_RETRIES
    /\ Len(writes) = 2
    /\ host_big_endian


\* The main thread is past the assignments of lines 359-366.
HandshakeDone ==
    pc_main \in {"pthread_create", "wait_until", "set_physical_start",
                 "returned"}

\* C11: after a successful handshake start_time is the start instant the
\* RTI returned and so is logical time until the engine advances it;
\* stop_time is that instant plus the duration when a duration was given
\* (duration >= 0) and is left as it was otherwise.
C11_TimesAfterHandshake ==
    HandshakeDone =>
       /\ start_time = rti.start
       /\ pc_main # "returned" => current_time = rti.start
       /\ pc_main = "returned" => physical_start_time = rti.start
       /\ duration >= 0 => stop_time = rti.start + duration
       /\ duration < 0 => stop_time \in InitialStopTimes

\* C11 happens: start instant 1200 with duration 500 gave stop time 1700.
C11_Witness ==
    /\ pc_main = "wait_until"
    /\ duration = 500
    /\ start_time = 1200 /\ current_time = 1200
    /\ stop_time = 1700


\* The startup failures whose exit status federate.c itself chooses, by the
\* statement at which the main thread stopped: "exhaustion" is the exit of
\* line 171, "no_host" the exit of line 146, "handshake" the exit of line
\* 235.  "error" stands for the failures that end in util.c's error().
StartupFailure ==
    CASE pc_main = "connect" -> "exhaustion"
      [] pc_main = "gethostbyname" -> "no_host"
      [] pc_main = "read_reply" /\ hs_buffer # <<>> -> "handshake"
      [] OTHER -> "error"

\* The process ended during connect_to_rti or get_start_time_from_rti.
FatalStartup ==
    /\ proc = "exited"
    /\ pc_main \in {"socket", "gethostbyname", "connect", "nanosleep",
                    "write_fed_id_marker", "write_fed_id",
                    "write_timestamp_marker", "write_timestamp",
                    "read_reply"}

\* C12: every fatal startup failure ends the process with a non-zero
\* status; connection exhaustion and a handshake violation end it with
\* different statuses; and the other failure whose status the source
\* fixes, the failed host lookup, shares the status of neither.
C12_DistinctStatuses ==
    FatalStartup =>
       /\ exit_status > 0
       /\ StartupFailure = "exhaustion" => exit_status = 2
       /\ StartupFailure = "handshake" => exit_status = 1
       /\ StartupFailure = "no_host" => exit_status \notin {1, 2}

\* C12's failing case: the host lookup failed and the process ended with
\* the status of a handshake violation.
C12_Example ==
    /\ proc = "exited"
    /\ pc_main = "gethostbyname"
    /\ exit_status = 1


\* The listener is between pthread_mutex_lock and pthread_mutex_unlock
\* (lines 303-309).
ListenerInCriticalSection == pc_lis \in {"t_delay", "t_schedule", "t_unlock"}

\* C13: the listener holds the mutex exactly across the step that reads
\* logical time, computes the delay and calls schedule_value: it does not
\* hold it at any read from the connection, it releases it after each timed
\* frame, and it waits for nothing while it holds it; so an engine thread
\* that waits for the mutex gets it (or the process has ended), provided
\* schedule_value returns.
C13_MutexScope ==
    /\ [](mutex = "listener" <=> ListenerInCriticalSection)
    /\ [](pc_eng \in {"locked", "advanced"} <=> mutex = "engine")
    /\ (pc_eng = "waiting" ~> (pc_eng = "locked" \/ proc # "running"))

\* C13 happens: the engine waits for the mutex while the listener holds it
\* at its call of schedule_value.
C13_Witness ==
    /\ proc = "running"
    /\ pc_eng = "waiting"
    /\ mutex = "listener"
    /\ pc_lis = "t_schedule"


\* The listener is at a read_from_socket call (lines 322, 259, 268, 284,
\* 300 and the 8 bytes of the timestamp).
ListenerReading ==
    pc_lis \in {"read_tag", "m_header", "m_payload", "t_header",
                "t_timestamp", "t_payload"}

\* The four writes of the handshake, each made once by the main thread.
HandshakeWritten ==
    \A part \in {"fed_id_marker", "fed_id", "timestamp_marker", "timestamp"} :
       \E i \in 1..Len(writes) : writes[i].by = "main" /\ writes[i].part = part

\* This step takes bytes from the connection.
ConnectionRead == Len(inbound') < Len(inbound)

\* This step is a write of the main thread on the connection.
MainWrite ==
    /\ Len(writes') = Len(writes) + 1
    /\ writes'[Len(writes')].by = "main"

\* C14: the handshake on the main thread and the listener never both use
\* the connection: when the listener exists every handshake write and the
\* handshake's one read are done and the main thread is past them; before
\* the listener is spawned the only read is the main thread's read of the
\* reply; after it every read is a step of the listener.
C14_OneUserOfConnection ==
    /\ [](pc_lis # "not_started" =>
             /\ pc_main \in {"wait_until", "set_physical_start", "returned"}
             /\ Len(hs_buffer) = 9
             /\ HandshakeWritten)
    /\ [][ConnectionRead =>
             IF pc_lis = "not_started"
             THEN pc_main = "read_reply" /\ hs_buffer' = Take(9)
             ELSE /\ ListenerReading
                  /\ pc_main' = pc_main
                  /\ hs_buffer' = hs_buffer]_vars
    /\ [][MainWrite => pc_lis = "not_started" /\ pc_lis' = "not_started"]_vars

\* C14 happens: the listener is inside a timed frame, reading, while the
\* main thread is still in synchronize_with_other_federates behind the
\* handshake, and a further frame waits on the connection.
C14_Witness ==
    /\ proc = "running"
    /\ pc_lis = "t_timestamp"
    /\ pc_main = "wait_until"
    /\ Len(hs_buffer) = 9
    /\ Len(rti.frames) = 2


\* The main thread is in the loop of connect_to_rti (lines 138-183).
InConnectLoop ==
    pc_main \in {"socket", "gethostbyname", "connect", "nanosleep"}

\* The main thread is in connect_to_rti (lines 132-198).
InConnectToRti ==
    \/ InConnectLoop
    \/ pc_main \in {"write_fed_id_marker", "write_fed_id"}

Consumed ==
    CASE pc_lis \in {"m_header", "t_header"} -> SubSeq(buffer, 1, 1)
      [] pc_lis \in {"m_payload", "t_timestamp"} -> SubSeq(buffer, 1, 9)
      [] pc_lis = "m_schedule" -> SubSeq(buffer, 1, 9) \o hm.message_contents
      [] pc_lis = "t_payload" -> SubSeq(buffer, 1, 17)
      [] pc_lis \in {"t_lock", "t_delay", "t_schedule"} ->
           SubSeq(buffer, 1, 17) \o hm.message_contents
      [] pc_lis = "read_tag" /\ UnknownTagRead -> SubSeq(buffer, 1, 1)
      [] OTHER -> <<>>

\* The bytes Consumed is cut from have been read.
ConsumedInBuffer ==
    CASE pc_lis \in {"m_header", "t_header"} -> Len(buffer) >= 1
      [] pc_lis \in {"m_payload", "t_timestamp", "m_schedule"} ->
           Len(buffer) >= 9
      [] pc_lis \in {"t_payload", "t_lock", "t_delay", "t_schedule"} ->
           Len(buffer) >= 17
      [] OTHER -> TRUE

\* The listener is inside a frame: its tag is read, schedule_value is not
\* yet called for it.
MidFrame ==
    pc_lis \in {"m_header", "m_payload", "m_schedule", "t_header",
                "t_timestamp", "t_payload", "t_lock", "t_delay", "t_schedule"}

\* The i-th call of schedule_value is the call for frame f.
CallMatches(i, f) ==
    /\ f.tag \in {MESSAGE, TIMED_MESSAGE}
    /\ scheduled[i].timed = (f.tag = TIMED_MESSAGE)
    /\ scheduled[i].action = action_for_port(f.port)
    /\ scheduled[i].value = f.payload
    /\ scheduled[i].length = Len(f.payload)
    /\ f.tag = TIMED_MESSAGE => scheduled[i].timestamp = f.timestamp

\* C16: the listener takes each frame whole (tag, 8 bytes of header, 8
\* bytes of timestamp when timed, then length bytes of payload) before it
\* reads the next tag, and calls schedule_value once for each MESSAGE and
\* TIMED_MESSAGE frame in the order of arrival: the calls made are the
\* calls for the first frames that arrived, in that order, and what is
\* left on the connection is exactly the rest of the frame in hand and the
\* frames after it.
C16_FramesInOrder ==
    pc_lis # "not_started" =>
       /\ Len(scheduled) <= Len(rti.frames)
       /\ \A i \in 1..Len(scheduled) : CallMatches(i, rti.frames[i])
       /\ ConsumedInBuffer
       /\ Consumed \o inbound = AllFrameBytes(FramesAfter(Len(scheduled)))
       /\ MidFrame =>
             /\ Len(scheduled) < Len(rti.frames)
             /\ rti.frames[Len(scheduled) + 1].tag =
                   (IF pc_lis \in {"m_header", "m_payload", "m_schedule"}
                    THEN MESSAGE ELSE TIMED_MESSAGE)
       /\ (pc_lis = "read_tag" /\ ~UnknownTagRead /\ inbound = <<>>) =>
             Len(scheduled) = Len(rti.frames)

\* C16 happens: a timed frame and then a plain frame with other contents
\* arrived, both are handled in that order and the connection is drained.
C16_Witness ==
    /\ proc = "running"
    /\ pc_lis = "read_tag"
    /\ inbound = <<>>
    /\ Len(scheduled) = 2
    /\ scheduled[1].timed /\ scheduled[1].action = 260
    /\ ~scheduled[2].timed /\ scheduled[2].action = 3


\* The indices of the header writes of send_via_rti_timed.
TimedHeaderWrites ==
    {i \in 1..Len(writes) : writes[i].part = "header" /\ writes[i].call.timed}

\* The indices of the payload writes of send_via_rti_timed.
TimedPayloadWrites ==
    {i \in 1..Len(writes) : writes[i].part = "payload" /\ writes[i].call.timed}

\* Worker w's call of send_via_rti_timed fills its header in this step.
TimedEncodeStep(w) ==
    /\ snd[w].timed
    /\ snd[w].pc = "encode"
    /\ snd'[w].pc = "write_header"

\* C17: the header send_via_rti_timed writes has 17 bytes: TIMED_MESSAGE,
\* the call's port, federate and length, and as timestamp the logical time
\* the call itself read (the call has no timestamp argument); the header is
\* written before the payload; and a frame of that form with timestamp t,
\* handled by the listener at logical time L, is given to schedule_value
\* with delay t - L.
C17_TimedFrameTimestamp ==
    /\ [](\A i \in TimedHeaderWrites :
             /\ Len(writes[i].bytes) = 17
             /\ writes[i].bytes[1] = TIMED_MESSAGE
             /\ SubSeq(writes[i].bytes, 10, 17) =
                   LittleEndian(writes[i].call.time, 8)
             /\ extract_header(SubSeq(writes[i].bytes, 2, 9)) =
                   [port_id |-> writes[i].call.port,
                    federate_id |-> writes[i].call.federate,
                    length |-> writes[i].call.length]
             /\ extract_ll(SubSeq(writes[i].bytes, 10, 17)) =
                   writes[i].call.time
             /\ writes[i].call.time >= start_time
             /\ writes[i].call.time <= current_time)
    /\ [](\A i \in TimedPayloadWrites :
             /\ i > 1
             /\ Len(writes[i].bytes) = writes[i].call.length
             /\ \E j \in 1..(i - 1) :
                   /\ j \in TimedHeaderWrites
                   /\ writes[j].by = writes[i].by
                   /\ writes[j].call = writes[i].call)
    /\ [][\A w \in Senders :
             TimedEncodeStep(w) =>
                /\ snd'[w].time = current_time
                /\ snd'[w].buffer[1] = TIMED_MESSAGE
                /\ SubSeq(snd'[w].buffer, 10, 17) = LittleEndian(current_time, 8)
                /\ snd'[w].port = snd[w].port
                /\ snd'[w].message = snd[w].message]_vars
    /\ [](\A i \in 1..Len(scheduled) :
             FrameOfCall(i).tag = TIMED_MESSAGE =>
                /\ FrameBytes(FrameOfCall(i)) =
                      send_via_rti_timed_buffer(FrameOfCall(i).port,
                          FrameOfCall(i).federate,
                          Len(FrameOfCall(i).payload),
                          FrameOfCall(i).timestamp)
                        \o FrameOfCall(i).payload
                /\ scheduled[i].timestamp = FrameOfCall(i).timestamp
                /\ scheduled[i].timestamp - scheduled[i].delay =
                      scheduled[i].logical_time)

\* C17 happens: a worker sent a timed frame at logical time 1200, header and
\* then payload, and the listener handled a timed frame stamped 1250 at the
\* same logical time with delay 50.
C17_Witness ==
    /\ \E i \in TimedHeaderWrites :
          /\ writes[i].call.time = 1200
          /\ writes[i].call.port = 259
          /\ i + 1 \in TimedPayloadWrites
    /\ Len(scheduled) = 1
    /\ scheduled[1].timed
    /\ scheduled[1].timestamp = 1250
    /\ scheduled[1].logical_time = 1200
    /\ scheduled[1].delay = 50


\* The indices of the header writes of send_via_rti and send_via_rti_timed.
SendHeaderWrites == {i \in 1..Len(writes) : writes[i].part = "header"}

\* C18: with two sends running in different threads the bytes of each
\* frame stay together on the connection: the write that follows a frame's
\* header write is the payload write of the same call, and every payload
\* write directly follows the header write of its call.
C18_FramesContiguous ==
    /\ \A i \in SendHeaderWrites :
          i < Len(writes) =>
             /\ writes[i + 1].part = "payload"
             /\ writes[i + 1].by = writes[i].by
             /\ writes[i + 1].call = writes[i].call
    /\ \A i \in 1..Len(writes) :
          writes[i].part = "payload" =>
             /\ i - 1 \in SendHeaderWrites
             /\ writes[i - 1].by = writes[i].by

\* C18's failing case: the headers of two threads' frames are written one
\* after the other, before either payload.
C18_Example ==
    /\ Len(writes) >= 2
    /\ Len(writes) \in SendHeaderWrites
    /\ Len(writes) - 1 \in SendHeaderWrites
    /\ writes[Len(writes)].by # writes[Len(writes) - 1].by

====
